---- MODULE Spec2Model ----
(***************************************************************************)
(* A model of comment.py: the paragraph matcher match_text_in_paragraph,   *)
(* the DOCX batch loop annotate_docx (with add_comment_to_paragraph) and   *)
(* the PDF batch loop annotate_pdf.                                         *)
(*                                                                         *)
(* Text is a sequence of one-character strings.  The alphabet holds a      *)
(* lower-case letter, its upper-case form, a blank and a full stop: the    *)
(* full stop is a non-word character and the one regex metacharacter of    *)
(* the alphabet, so re.escape and a raw regex differ on it.                *)
(***************************************************************************)
EXTENDS Integers, Sequences, FiniteSets, TLC

VARIABLES
    path,         \* "docx" (annotate_docx), "pdf" (annotate_pdf), "match" (matcher alone)
    paragraphs,   \* doc.paragraphs of the DOCX: records [text, runs]
    pages,        \* the PDF's pages: the text of each page
    annotations,  \* the annotations argument
    annIdx,       \* 1-based index of the annotation the for loop is at
    comments,     \* what has been attached so far, in attach order
    status,       \* "running", "saved" (doc.save reached), "raised" (exception left the function)
    m_in,         \* inputs of one match_text_in_paragraph call
    m_out         \* its result: <<>> before the call, <<TRUE>> or <<FALSE>> after

vars == <<path, paragraphs, pages, annotations, annIdx, comments, status, m_in, m_out>>

---------------------------------------------------------------------------
(* Bounds *)

MaxTextLen == 3
MaxPatLen == 2
MaxParas == 3
MaxPages == 2
MaxAnns == 2

---------------------------------------------------------------------------
(* Characters and strings *)

Chars == {"a", "A", " ", "."}

\* \w of the re module, on the alphabet
IsWordChar(c) == c \in {"a", "A"}

\* str.isspace, on the alphabet
IsSpace(c) == c = " "

LowerChar(c) == IF c = "A" THEN "a" ELSE c

\* str.lower
Lower(s) == [i \in 1..Len(s) |-> LowerChar(s[i])]

Strs(n) == UNION {[1..k -> Chars] : k \in 0..n}

\* dict.get(key, default)
Get(d, key, default) == IF key \in DOMAIN d THEN d[key] ELSE default

\* needle occurs in hay at 1-based position pos
OccursAt(needle, hay, pos) ==
    /\ pos >= 1
    /\ pos + Len(needle) - 1 <= Len(hay)
    /\ \A i \in 1..Len(needle) : hay[pos + i - 1] = needle[i]

\* the `in` operator on strings
Contains(needle, hay) == \E pos \in 1..(Len(hay) + 1) : OccursAt(needle, hay, pos)

\* "not para_text.strip()": nothing but white space
IsBlankEmptyOnly(para_text) == Len(para_text) = 0

IsBlank(para_text) == \A i \in 1..Len(para_text) : IsSpace(para_text[i])

---------------------------------------------------------------------------
(* The regex engine, on the patterns the matcher builds: a sequence of     *)
(* tokens, each a literal character, "." (any character) or \b.            *)

TokLit(c) == [k |-> "lit", c |-> c]
TokAny == [k |-> "any", c |-> ""]
TokB == [k |-> "b", c |-> ""]

\* re.escape(s): every character stands for itself
ReEscape(s) == [i \in 1..Len(s) |-> TokLit(s[i])]

\* a raw pattern as the regex compiler reads it: "." is a wildcard
ReCompile(s) == [i \in 1..Len(s) |-> IF s[i] = "." THEN TokAny ELSE TokLit(s[i])]

\* \b after `off` characters of text: exactly one of the two neighbours is a word character
IsBoundary(text, off) ==
    LET before == off >= 1 /\ IsWordChar(text[off])
        after == off < Len(text) /\ IsWordChar(text[off + 1])
    IN  before # after

RECURSIVE ReMatchAt(_, _, _, _, _)
ReMatchAt(toks, j, text, off, ignorecase) ==
    IF j > Len(toks) THEN TRUE
    ELSE LET t == toks[j] IN
         CASE t.k = "b" ->
                  IsBoundary(text, off) /\ ReMatchAt(toks, j + 1, text, off, ignorecase)
           [] t.k = "any" ->
                  off < Len(text) /\ ReMatchAt(toks, j + 1, text, off + 1, ignorecase)
           [] OTHER ->
                  /\ off < Len(text)
                  /\ IF ignorecase
                         THEN LowerChar(text[off + 1]) = LowerChar(t.c)
                         ELSE text[off + 1] = t.c
                  /\ ReMatchAt(toks, j + 1, text, off + 1, ignorecase)

\* re.search(pattern, text, flags) is not None
ReSearch(toks, text, ignorecase) ==
    \E off \in 0..Len(text) : ReMatchAt(toks, 1, text, off, ignorecase)

---------------------------------------------------------------------------
(* match_text_in_paragraph *)

\* r"\b" + re.escape(target_text_cmp) + r"\b"
WholeWordPattern(target_text_cmp) == <<TokB>> \o ReEscape(target_text_cmp) \o <<TokB>>

MatchTextInParagraph(paragraph_text, target_text, match_type, case_sensitive, whole_word) ==
    LET paragraph_text_cmp == IF ~case_sensitive THEN Lower(paragraph_text) ELSE paragraph_text
        target_text_cmp == IF ~case_sensitive THEN Lower(target_text) ELSE target_text
    IN  IF match_type = "regex"
            THEN LET pattern == IF whole_word
                                    THEN <<TokB>> \o ReCompile(target_text) \o <<TokB>>
                                    ELSE ReCompile(target_text)
                 IN  ReSearch(pattern, paragraph_text, ~case_sensitive)
            ELSE IF whole_word
                     THEN ReSearch(WholeWordPattern(target_text_cmp), paragraph_text_cmp, FALSE)
                     ELSE Contains(target_text_cmp, paragraph_text_cmp)

---------------------------------------------------------------------------
(* Annotations: JSON objects, as functions from keys to values; a key that *)
(* is missing is missing from the function's domain.                       *)

\* {}
EmptyDict == [key \in {} |-> key]

\* int(occurrence) succeeds on these and raises on every other string of the model
IntStrings == {"1", "2", "3"}

\* int(occurrence)
IntOf(occurrence) ==
    CASE occurrence = "1" -> 1
      [] occurrence = "2" -> 2
      [] occurrence = "3" -> 3

\* one thing attached to the document.  ann is the index of the annotation whose
\* comment it carries (the code carries the comment text and author instead).
Attached(ann, kind, unit, author, comment_text) ==
    [ann |-> ann, kind |-> kind, unit |-> unit, content |-> <<author, comment_text>>]

---------------------------------------------------------------------------
(* annotate_docx *)

\* add_comment_to_paragraph: what it adds to the document
AddCommentToParagraph(paragraph, k, ann, comment_text, author) ==
    IF paragraph.runs = 0
        THEN <<>>
        ELSE <<Attached(ann, "comment", <<k>>, author, comment_text)>>

DocxOccNumFallsBackToZero(occurrence) ==
    IF occurrence \in IntStrings THEN IntOf(occurrence) ELSE 0

\* try: occ_num = int(occurrence) / except Exception: occ_num = 1
DocxOccNum(occurrence) ==
    IF occurrence \in IntStrings THEN IntOf(occurrence) ELSE 1

\* the paragraph loop of one annotation, from paragraph k on with match_count
\* matches counted so far: the comments it adds, in the order it adds them
RECURSIVE DocxParagraphLoop(_, _, _, _, _)
DocxParagraphLoop(paras, k, match_count, ann, target) ==
    IF k > Len(paras) THEN <<>>
    ELSE
    LET paragraph == paras[k]
        para_text == paragraph.text
        text == Get(target, "text", <<>>)
        match_type == Get(target, "match_type", "exact")
        case_sensitive == Get(target, "case_sensitive", FALSE)
        whole_word == Get(target, "whole_word", TRUE)
        occurrence == Get(target, "occurrence", "first")
        comment_spec == Get(annotations[ann], "comment", EmptyDict)
        comment_text == Get(comment_spec, "text", "")
        author == Get(comment_spec, "author", "Reviewer")
        add == AddCommentToParagraph(paragraph, k, ann, comment_text, author)
    IN  IF IsBlank(para_text)
            THEN DocxParagraphLoop(paras, k + 1, match_count, ann, target)
        ELSE IF ~MatchTextInParagraph(para_text, text, match_type, case_sensitive, whole_word)
            THEN DocxParagraphLoop(paras, k + 1, match_count, ann, target)
        ELSE IF occurrence = "all"
            THEN add \o DocxParagraphLoop(paras, k + 1, match_count + 1, ann, target)
        ELSE IF occurrence = "first"
            THEN IF match_count + 1 = 1
                     THEN add
                     ELSE DocxParagraphLoop(paras, k + 1, match_count + 1, ann, target)
        ELSE IF match_count + 1 = DocxOccNum(occurrence)
                 THEN add
                 ELSE DocxParagraphLoop(paras, k + 1, match_count + 1, ann, target)

\* "if mode != 'text': continue"
DocxSkipsMode(mode) == mode # "text"

\* what one pass of the for loop of annotate_docx adds for annotation number ann
DocxResolve(paras, ann, target) ==
    IF DocxSkipsMode(Get(target, "mode", "text")) THEN <<>>
    ELSE IF Get(target, "text", <<>>) = <<>> THEN <<>>
    ELSE DocxParagraphLoop(paras, 1, 0, ann, target)

DocxCurrentTarget == Get(annotations[annIdx], "target", EmptyDict)

\* an annotation whose mode is not "text": skipped
DocxSkipMode ==
    /\ path = "docx" /\ status = "running" /\ annIdx <= Len(annotations)
    /\ DocxSkipsMode(Get(DocxCurrentTarget, "mode", "text"))
    /\ annIdx' = annIdx + 1
    /\ UNCHANGED <<path, paragraphs, pages, annotations, comments, status, m_in, m_out>>

\* a text annotation with no text: skipped
DocxSkipNoText ==
    /\ path = "docx" /\ status = "running" /\ annIdx <= Len(annotations)
    /\ ~DocxSkipsMode(Get(DocxCurrentTarget, "mode", "text"))
    /\ Get(DocxCurrentTarget, "text", <<>>) = <<>>
    /\ annIdx' = annIdx + 1
    /\ UNCHANGED <<path, paragraphs, pages, annotations, comments, status, m_in, m_out>>

\* a text annotation: the paragraph loop
DocxAnnotate ==
    /\ path = "docx" /\ status = "running" /\ annIdx <= Len(annotations)
    /\ ~DocxSkipsMode(Get(DocxCurrentTarget, "mode", "text"))
    /\ Get(DocxCurrentTarget, "text", <<>>) # <<>>
    /\ comments' = comments \o DocxParagraphLoop(paragraphs, 1, 0, annIdx, DocxCurrentTarget)
    /\ annIdx' = annIdx + 1
    /\ UNCHANGED <<path, paragraphs, pages, annotations, status, m_in, m_out>>

\* doc.save(output_path)
DocxSave ==
    /\ path = "docx" /\ status = "running" /\ annIdx > Len(annotations)
    /\ status' = "saved"
    /\ UNCHANGED <<path, paragraphs, pages, annotations, annIdx, comments, m_in, m_out>>

---------------------------------------------------------------------------
(* annotate_pdf *)

\* needle found in hay at pos, letter case ignored
FoundAt(needle, hay, pos) == OccursAt(Lower(needle), Lower(hay), pos)

\* page.search_for(text): the hits on one page in page order, each named by the
\* position where it starts; the search ignores letter case and resumes after a hit
RECURSIVE SearchFor(_, _, _)
SearchFor(page_text, text, pos) ==
    IF pos + Len(text) - 1 > Len(page_text) THEN <<>>
    ELSE IF FoundAt(text, page_text, pos)
        THEN <<pos>> \o SearchFor(page_text, text, pos + Len(text))
        ELSE SearchFor(page_text, text, pos + 1)

\* matches_global: (page_index, rect) of every hit, pages in order from page_index on
RECURSIVE MatchesGlobal(_, _, _)
MatchesGlobal(doc, text, page_index) ==
    IF page_index >= Len(doc) THEN <<>>
    ELSE LET rects == SearchFor(doc[page_index + 1], text, 1)
         IN  [j \in 1..Len(rects) |-> <<page_index, rects[j]>>]
                 \o MatchesGlobal(doc, text, page_index + 1)

ApplyCommentToRectsReversed(rects, ann, comment_text, author) ==
    [j \in 1..Len(rects) |->
        Attached(ann, "highlight", rects[Len(rects) + 1 - j], author, comment_text)]

\* apply_comment_to_rects: one highlight per (page_index, rect), in list order
ApplyCommentToRects(rects, ann, comment_text, author) ==
    [j \in 1..Len(rects) |-> Attached(ann, "highlight", rects[j], author, comment_text)]

\* idx of the "first or nth" branch
PdfIdx(occurrence) ==
    IF occurrence = "first" THEN 1
    ELSE IF occurrence \in IntStrings THEN IntOf(occurrence) ELSE 1

\* the text branch of annotate_pdf for annotation number ann
PdfTextResolve(doc, ann, target, comment_text, author) ==
    LET text == Get(target, "text", <<>>)
        occurrence == Get(target, "occurrence", "first")
        matches_global == MatchesGlobal(doc, text, 0)
        idx == PdfIdx(occurrence)
    IN  IF text = <<>> THEN <<>>
        ELSE IF matches_global = <<>> THEN <<>>
        ELSE IF occurrence = "all"
            THEN ApplyCommentToRects(matches_global, ann, comment_text, author)
        ELSE IF 1 <= idx /\ idx <= Len(matches_global)
            THEN ApplyCommentToRects(<<matches_global[idx]>>, ann, comment_text, author)
        ELSE <<>>

PageInRangeOffByOne(page_index, page_count) == 0 <= page_index /\ page_index <= page_count

\* 0 <= page_index < len(doc)
PageInRange(page_index, page_count) == 0 <= page_index /\ page_index < page_count

\* fitz.Rect(*bbox) takes four numbers; it raises on three
RectRaises(bbox) == Len(bbox) # 4

\* "bbox is None or not (0 <= page_index < len(doc))", page_index = page - 1
PdfPositionSkips(doc, target) ==
    LET pdf_pos == Get(target, "pdf", EmptyDict)
        page_index == Get(pdf_pos, "page", 1) - 1
    IN  "bbox" \notin DOMAIN pdf_pos \/ ~PageInRange(page_index, Len(doc))

\* the position branch of annotate_pdf raises
PdfPositionRaises(doc, target) ==
    /\ ~PdfPositionSkips(doc, target)
    /\ RectRaises(target.pdf.bbox)

\* the position branch of annotate_pdf for annotation number ann: a text
\* annotation at rect.tl, the first two numbers of the box
PdfPositionResolve(doc, ann, target, comment_text, author) ==
    LET pdf_pos == Get(target, "pdf", EmptyDict)
        page_index == Get(pdf_pos, "page", 1) - 1
    IN  IF PdfPositionSkips(doc, target) \/ PdfPositionRaises(doc, target) THEN <<>>
        ELSE <<Attached(ann, "text_annot", <<page_index, pdf_pos.bbox[1], pdf_pos.bbox[2]>>,
                        author, comment_text)>>

\* what one pass of the for loop of annotate_pdf adds for annotation number ann
PdfResolve(doc, ann, target, comment_text, author) ==
    IF Get(target, "mode", "text") = "position"
        THEN PdfPositionResolve(doc, ann, target, comment_text, author)
        ELSE PdfTextResolve(doc, ann, target, comment_text, author)

PdfCurrentTarget == Get(annotations[annIdx], "target", EmptyDict)
PdfCommentSpec == Get(annotations[annIdx], "comment", EmptyDict)
PdfCommentText == Get(PdfCommentSpec, "text", "")
PdfAuthor == Get(PdfCommentSpec, "author", "Reviewer")

PdfAtAnnotation == path = "pdf" /\ status = "running" /\ annIdx <= Len(annotations)

PdfIsPosition == Get(PdfCurrentTarget, "mode", "text") = "position"

\* position mode, bbox missing or page out of range: skipped
PdfPositionSkip ==
    /\ PdfAtAnnotation /\ PdfIsPosition
    /\ PdfPositionSkips(pages, PdfCurrentTarget)
    /\ annIdx' = annIdx + 1
    /\ UNCHANGED <<path, paragraphs, pages, annotations, comments, status, m_in, m_out>>

\* position mode, fitz.Rect(*bbox) raises: the exception leaves annotate_pdf
\* before doc.save
PdfPositionRaise ==
    /\ PdfAtAnnotation /\ PdfIsPosition
    /\ PdfPositionRaises(pages, PdfCurrentTarget)
    /\ status' = "raised"
    /\ UNCHANGED <<path, paragraphs, pages, annotations, annIdx, comments, m_in, m_out>>

\* position mode: a text annotation at the top-left corner of the box
PdfPositionAnnot ==
    /\ PdfAtAnnotation /\ PdfIsPosition
    /\ ~PdfPositionSkips(pages, PdfCurrentTarget)
    /\ ~PdfPositionRaises(pages, PdfCurrentTarget)
    /\ comments' = comments \o PdfPositionResolve(pages, annIdx, PdfCurrentTarget,
                                                  PdfCommentText, PdfAuthor)
    /\ annIdx' = annIdx + 1
    /\ UNCHANGED <<path, paragraphs, pages, annotations, status, m_in, m_out>>

\* text mode with no text: skipped
PdfSkipNoText ==
    /\ PdfAtAnnotation /\ ~PdfIsPosition
    /\ Get(PdfCurrentTarget, "text", <<>>) = <<>>
    /\ annIdx' = annIdx + 1
    /\ UNCHANGED <<path, paragraphs, pages, annotations, comments, status, m_in, m_out>>

\* text mode, the text is nowhere in the document: skipped
PdfSkipNoMatch ==
    /\ PdfAtAnnotation /\ ~PdfIsPosition
    /\ Get(PdfCurrentTarget, "text", <<>>) # <<>>
    /\ MatchesGlobal(pages, PdfCurrentTarget.text, 0) = <<>>
    /\ annIdx' = annIdx + 1
    /\ UNCHANGED <<path, paragraphs, pages, annotations, comments, status, m_in, m_out>>

\* text mode with matches: all of them, the first or the idx-th
PdfAnnotate ==
    /\ PdfAtAnnotation /\ ~PdfIsPosition
    /\ Get(PdfCurrentTarget, "text", <<>>) # <<>>
    /\ MatchesGlobal(pages, PdfCurrentTarget.text, 0) # <<>>
    /\ comments' = comments \o PdfTextResolve(pages, annIdx, PdfCurrentTarget,
                                              PdfCommentText, PdfAuthor)
    /\ annIdx' = annIdx + 1
    /\ UNCHANGED <<path, paragraphs, pages, annotations, status, m_in, m_out>>

\* doc.save(output_path); doc.close()
PdfSave ==
    /\ path = "pdf" /\ status = "running" /\ annIdx > Len(annotations)
    /\ status' = "saved"
    /\ UNCHANGED <<path, paragraphs, pages, annotations, annIdx, comments, m_in, m_out>>

---------------------------------------------------------------------------
(* Documents and batches *)

\* paragraphs of a DOCX: white space only; a word with a run; the same word
\* inside a hyperlink only (python-docx gives it text and no run); a longer
\* word followed by a blank
ParaChoices ==
    {[text |-> <<" ">>, runs |-> 1],
     [text |-> <<"a">>, runs |-> 1],
     [text |-> <<"a">>, runs |-> 0],
     [text |-> <<"a", "a", " ">>, runs |-> 1]}

PageChoices == {<<>>, <<"a">>, <<"a", " ", "A">>}

SeqsUpTo(S, lo, hi) == UNION {[1..k -> S] : k \in lo..hi}

Box4 == <<10, 10, 50, 20>>
Box3 == <<10, 10, 50>>

Note == [text |-> "note"]

\* text targets of a DOCX batch: the occurrences, and a blank pattern
DocxSelectionTargets ==
    {[text |-> <<"a">>],
     [mode |-> "text", text |-> <<"a">>, occurrence |-> "all"],
     [mode |-> "text", text |-> <<"a">>, occurrence |-> "2"],
     [mode |-> "text", text |-> <<"a">>, occurrence |-> "abc"],
     [mode |-> "text", text |-> <<" ">>, whole_word |-> FALSE, occurrence |-> "all"]}

\* targets of a DOCX batch that the loop skips, beside one it does not
DocxDispatchTargets ==
    {[text |-> <<"a">>],
     [mode |-> "foo", text |-> <<"a">>, occurrence |-> "all"],
     [mode |-> "text", text |-> <<>>],
     [mode |-> "position", pdf |-> [page |-> 1, bbox |-> Box4]]}

\* position targets of a PDF batch, beside one text target
PdfPositionTargets ==
    {[mode |-> "position", pdf |-> [page |-> p, bbox |-> Box4]] :
        p \in {0, 1, MaxPages, MaxPages + 1}}
    \cup
    {[mode |-> "position", pdf |-> [page |-> 1]],
     [mode |-> "position", pdf |-> [bbox |-> Box4]],
     [mode |-> "position", pdf |-> [page |-> 1, bbox |-> Box3]],
     [mode |-> "text", text |-> <<"a">>, occurrence |-> "all"]}

\* text targets of a PDF batch
PdfTextTargets ==
    {[text |-> <<"a">>],
     [mode |-> "text", text |-> <<"a">>, occurrence |-> "all"],
     [mode |-> "text", text |-> <<"a">>, occurrence |-> "2"],
     [mode |-> "text", text |-> <<"a">>, occurrence |-> "abc"],
     [mode |-> "foo", text |-> <<"a">>, occurrence |-> "all"],
     [mode |-> "text", text |-> <<>>]}

AnnotationsOf(targets) == {[target |-> t, comment |-> Note] : t \in targets}

\* the batches: one to MaxAnns annotations, their targets from one of two families
Batches(family1, family2) ==
    SeqsUpTo(AnnotationsOf(family1), 1, MaxAnns) \cup SeqsUpTo(AnnotationsOf(family2), 1, MaxAnns)

DocxInit ==
    /\ path = "docx"
    /\ paragraphs \in SeqsUpTo(ParaChoices, 0, MaxParas)
    /\ pages = <<>>
    /\ annotations \in Batches(DocxSelectionTargets, DocxDispatchTargets)

PdfInit ==
    /\ path = "pdf"
    /\ paragraphs = <<>>
    /\ pages \in SeqsUpTo(PageChoices, 1, MaxPages)
    /\ annotations \in Batches(PdfPositionTargets, PdfTextTargets)

Init ==
    /\ DocxInit \/ PdfInit
    /\ annIdx = 1
    /\ comments = <<>>
    /\ status = "running"
    /\ m_in = <<>>
    /\ m_out = <<>>

Next ==
    \/ DocxSkipMode
    \/ DocxSkipNoText
    \/ DocxAnnotate
    \/ DocxSave
    \/ PdfPositionSkip
    \/ PdfPositionRaise
    \/ PdfPositionAnnot
    \/ PdfSkipNoText
    \/ PdfSkipNoMatch
    \/ PdfAnnotate
    \/ PdfSave

Spec == Init /\ [][Next]_vars

---------------------------------------------------------------------------
(* The matcher alone: inputs drawn from every string within the bounds *)

MatchInputs ==
    [text : Strs(MaxTextLen),
     target : Strs(MaxPatLen) \ {<<>>},
     match_type : {"exact", "regex"},
     case_sensitive : BOOLEAN,
     whole_word : BOOLEAN]

MatchInit ==
    /\ path = "match"
    /\ m_in \in MatchInputs
    /\ m_out = <<>>
    /\ paragraphs = <<>>
    /\ pages = <<>>
    /\ annotations = <<>>
    /\ annIdx = 1
    /\ comments = <<>>
    /\ status = "running"

CallMatch ==
    /\ path = "match"
    /\ m_out = <<>>
    /\ m_out' = <<MatchTextInParagraph(m_in.text, m_in.target, m_in.match_type,
                                       m_in.case_sensitive, m_in.whole_word)>>
    /\ UNCHANGED <<path, paragraphs, pages, annotations, annIdx, comments, status, m_in>>

MatchNext == CallMatch

SpecMatch == MatchInit /\ [][MatchNext]_vars

---------------------------------------------------------------------------
(* What the claims speak about *)

TargetOf(i) == Get(annotations[i], "target", EmptyDict)
ModeOf(i) == Get(TargetOf(i), "mode", "text")
OccurrenceOf(i) == Get(TargetOf(i), "occurrence", "first")
PatternOf(i) == Get(TargetOf(i), "text", <<>>)

\* the loop pass of annotation i is over
Done(i) == i < annIdx

\* what annotation i attached, in attach order, and the units it attached to
EventsOf(i) == SelectSeq(comments, LAMBDA e : e.ann = i)
UnitsOf(i) == LET ev == EventsOf(i) IN [j \in 1..Len(ev) |-> ev[j].unit]

\* target with key set to value
WithKey(target, key, value) ==
    [k \in DOMAIN target \cup {key} |-> IF k = key THEN value ELSE target[k]]

\* what the code attaches for annotation i, were its target `target`
ResolveOf(i, target) ==
    LET comment_spec == Get(annotations[i], "comment", EmptyDict)
    IN  IF path = "docx"
            THEN DocxResolve(paragraphs, i, target)
            ELSE PdfResolve(pages, i, target, Get(comment_spec, "text", ""),
                            Get(comment_spec, "author", "Reviewer"))

UnitsIn(events) == [j \in 1..Len(events) |-> events[j].unit]

\* a text-mode spec with a pattern
IsTextSpec(i) == ModeOf(i) = "text" /\ PatternOf(i) # <<>>

WhitespaceOnly(text) == \A j \in 1..Len(text) : text[j] = " "

\* document order of units: paragraph index, or page then place in the page
LexLess(u, v) ==
    \E j \in 1..Len(u) : u[j] < v[j] /\ \A m \in 1..(j - 1) : u[m] = v[m]

\* a set of units as the sequence in document order
InOrder(S) ==
    [j \in 1..Cardinality(S) |->
        CHOOSE u \in S : Cardinality({v \in S : v = u \/ LexLess(v, u)}) = j]

\* the units that satisfy the match predicate of annotation i: the paragraphs
\* that are not blank and match, or every hit of the search in every page
MatchingUnitSet(i) ==
    LET t == TargetOf(i) IN
    IF path = "docx"
        THEN {<<k>> : k \in {k \in 1..Len(paragraphs) :
                  /\ ~WhitespaceOnly(paragraphs[k].text)
                  /\ MatchTextInParagraph(paragraphs[k].text, PatternOf(i),
                                          Get(t, "match_type", "exact"),
                                          Get(t, "case_sensitive", FALSE),
                                          Get(t, "whole_word", TRUE))}}
        ELSE UNION {{<<p - 1, SearchFor(pages[p], PatternOf(i), 1)[j]>> :
                        j \in 1..Len(SearchFor(pages[p], PatternOf(i), 1))} :
                    p \in 1..Len(pages)}

MatchingUnits(i) == InOrder(MatchingUnitSet(i))

AllAnns == 1..Len(annotations)

---------------------------------------------------------------------------
(* C1 - C3 *)

\* C1: once a text-mode spec with occurrence "first" has been processed, the
\* units that received its comment are exactly the lowest-index matching unit,
\* or none if and only if no unit matches.
C1_FirstGetsLowestMatch ==
    \A i \in AllAnns :
        (Done(i) /\ IsTextSpec(i) /\ OccurrenceOf(i) = "first")
            => UnitsOf(i) = IF MatchingUnits(i) = <<>> THEN <<>>
                            ELSE <<MatchingUnits(i)[1]>>

\* C2: a text-mode spec with occurrence "all" attaches one comment per matching
\* unit, as many as there are matching units, in ascending unit order.
C2_AllGetsEveryMatch ==
    \A i \in AllAnns :
        (Done(i) /\ IsTextSpec(i) /\ OccurrenceOf(i) = "all")
            => UnitsOf(i) = MatchingUnits(i)

\* C3: a text-mode spec with occurrence n attaches its comment to exactly the
\* n-th match of the whole document (paragraphs in order; pages in order, then
\* place in the page) when there are at least n matches, and to nothing otherwise.
C3_NthGetsNthMatch ==
    \A i \in AllAnns :
        (Done(i) /\ IsTextSpec(i) /\ OccurrenceOf(i) \in IntStrings)
            => UnitsOf(i) = IF Len(MatchingUnits(i)) >= IntOf(OccurrenceOf(i))
                                THEN <<MatchingUnits(i)[IntOf(OccurrenceOf(i))]>>
                                ELSE <<>>

---------------------------------------------------------------------------
(* C4 *)

Unparseable(i) == OccurrenceOf(i) \notin ({"first", "all"} \cup IntStrings)

\* C4 as stated: a spec whose occurrence is an unparseable string attaches
\* nothing, whatever the document holds, in the DOCX and in the PDF path.
C4_UnparseableIsInert ==
    \A i \in AllAnns : (Done(i) /\ Unparseable(i)) => EventsOf(i) = <<>>

\* C4 as amended: a spec whose occurrence is an unparseable string attaches
\* exactly what the same spec with occurrence "first" attaches, in both paths.
C4_UnparseableActsAsFirst ==
    \A i \in AllAnns :
        (Done(i) /\ Unparseable(i))
            => EventsOf(i) = ResolveOf(i, WithKey(TargetOf(i), "occurrence", "first"))

\* an unparseable occurrence that attached a comment, in a DOCX
C4_Witness ==
    \E i \in AllAnns :
        /\ path = "docx" /\ Done(i) /\ Unparseable(i)
        /\ Len(EventsOf(i)) = 1
        /\ EventsOf(i)[1].unit[1] > 1

---------------------------------------------------------------------------
(* C5 *)

\* pages a position target can address: a DOCX has none
PageCount == IF path = "pdf" THEN Len(pages) ELSE 0

\* a position-mode spec with a box of four numbers or no box
IsPositionSpec(i) ==
    /\ ModeOf(i) = "position"
    /\ "pdf" \in DOMAIN TargetOf(i)
    /\ "bbox" \in DOMAIN TargetOf(i).pdf => Len(TargetOf(i).pdf.bbox) = 4

\* the page of a position target; a target that names none means page 1
PageOf(i) == Get(TargetOf(i).pdf, "page", 1)

\* C5: a position-mode spec yields exactly one anchor, on the given page at the
\* given box (its top-left corner), if and only if its box is present and
\* 1 <= page <= pageCount; otherwise it yields no anchor, and it raises nothing.
C5_PositionAnchorIffValid ==
    \A i \in AllAnns :
        IsPositionSpec(i) =>
            LET pos == TargetOf(i).pdf
                valid == /\ "bbox" \in DOMAIN pos
                         /\ 1 <= PageOf(i)
                         /\ PageOf(i) <= PageCount
            IN  /\ ~(status = "raised" /\ annIdx = i)
                /\ Done(i) =>
                      IF valid
                          THEN /\ Len(EventsOf(i)) = 1
                               /\ EventsOf(i)[1].kind = "text_annot"
                               /\ EventsOf(i)[1].unit = <<PageOf(i) - 1, pos.bbox[1], pos.bbox[2]>>
                          ELSE EventsOf(i) = <<>>

\* a position spec for the last of several pages, attached
C5_Witness ==
    \E i \in AllAnns :
        /\ path = "pdf" /\ Done(i) /\ IsPositionSpec(i)
        /\ Len(pages) >= 2
        /\ PageOf(i) = Len(pages)
        /\ Len(EventsOf(i)) = 1

---------------------------------------------------------------------------
(* C6, C7 *)

\* a malformed spec: no target, no pattern or an empty one, no pdf record, no
\* box, a box that is not four numbers, a page outside the document
Malformed(i) ==
    \/ "target" \notin DOMAIN annotations[i]
    \/ /\ ModeOf(i) # "position"
       /\ PatternOf(i) = <<>>
    \/ /\ ModeOf(i) = "position"
       /\ \/ "pdf" \notin DOMAIN TargetOf(i)
          \/ "bbox" \notin DOMAIN TargetOf(i).pdf
          \/ Len(TargetOf(i).pdf.bbox) # 4
          \/ path = "pdf" /\ ~(1 <= PageOf(i) /\ PageOf(i) <= Len(pages))

\* C6: a batch that holds a malformed spec never raises and runs to its end;
\* the malformed spec attaches nothing and every other spec attaches what it
\* attaches without the malformed spec in the batch.
C6_MalformedIsInert ==
    (\E m \in AllAnns : Malformed(m)) =>
        /\ status # "raised"
        /\ \A i \in AllAnns : (Done(i) /\ Malformed(i)) => EventsOf(i) = <<>>
        /\ status = "saved" =>
              \A j \in AllAnns :
                  ~Malformed(j) => UnitsOf(j) = UnitsIn(ResolveOf(j, TargetOf(j)))

\* C7: a spec whose mode is missing or is not a known mode attaches what the
\* same spec with mode "text" attaches, in the DOCX and in the PDF path.
C7_UnknownModeIsText ==
    \A i \in AllAnns :
        (Done(i) /\ (ModeOf(i) \notin {"text", "position"} \/ "mode" \notin DOMAIN TargetOf(i)))
            => EventsOf(i) = ResolveOf(i, WithKey(TargetOf(i), "mode", "text"))

---------------------------------------------------------------------------
(* C8 *)

\* C8: each comment is attached after the comments of the earlier specs and
\* after the comments of its own spec at earlier units (stated of each comment
\* and the next one attached); every processed spec has attached exactly its own anchors whatever the
\* specs before it attached (none included), and the document is saved only
\* after every spec has been processed.
C8_SpecOrderThenMatchOrder ==
    /\ \A j \in 1..(Len(comments) - 1) :
           LET e == comments[j]
               f == comments[j + 1]
           IN  \/ e.ann < f.ann
               \/ e.ann = f.ann /\ LexLess(e.unit, f.unit)
    /\ \A i \in AllAnns : Done(i) => UnitsOf(i) = UnitsIn(ResolveOf(i, TargetOf(i)))
    /\ status = "saved" => \A i \in AllAnns : Done(i)

\* a PDF saved after its first spec highlighted hits on two pages and its second
\* spec attached too
C8_Witness ==
    /\ path = "pdf" /\ status = "saved"
    /\ Len(annotations) >= 2
    /\ Len(EventsOf(1)) >= 2
    /\ EventsOf(1)[1].unit[1] # EventsOf(1)[Len(EventsOf(1))].unit[1]
    /\ Len(EventsOf(2)) >= 1

---------------------------------------------------------------------------
(* C10 *)

\* indices of the paragraphs from k on that are not blank, ascending
RECURSIVE NonBlankFrom(_)
NonBlankFrom(k) ==
    IF k > Len(paragraphs) THEN <<>>
    ELSE IF WhitespaceOnly(paragraphs[k].text) THEN NonBlankFrom(k + 1)
    ELSE <<k>> \o NonBlankFrom(k + 1)

\* C10: in text mode of the DOCX path a blank paragraph never receives a comment
\* and never counts as a match: every spec attaches to the paragraphs it
\* attaches to in the document without its blank paragraphs.
C10_BlankUnitsAreSkipped ==
    path = "docx" =>
        LET idx == NonBlankFrom(1)
            stripped == [j \in 1..Len(idx) |-> paragraphs[idx[j]]]
        IN  \A i \in AllAnns :
                (Done(i) /\ IsTextSpec(i)) =>
                    LET units == UnitsOf(i)
                        r == DocxResolve(stripped, i, TargetOf(i))
                    IN  /\ \A j \in 1..Len(units) :
                               ~WhitespaceOnly(paragraphs[units[j][1]].text)
                        /\ units = [j \in 1..Len(r) |-> <<idx[r[j].unit[1]]>>]

\* the second match lies after a blank paragraph and received the comment
C10_Witness ==
    \E i \in AllAnns :
        /\ path = "docx" /\ Done(i) /\ IsTextSpec(i) /\ OccurrenceOf(i) = "2"
        /\ Len(paragraphs) = 3
        /\ WhitespaceOnly(paragraphs[2].text)
        /\ UnitsOf(i) = << <<3>> >>

---------------------------------------------------------------------------
(* C9 *)

\* the pattern occurs in the unit text between non-word characters or the unit's ends
OccursAsToken(pattern, unit) ==
    \E pos \in 1..Len(unit) :
        /\ OccursAt(pattern, unit, pos)
        /\ (pos = 1 \/ ~IsWordChar(unit[pos - 1]))
        /\ (pos + Len(pattern) - 1 = Len(unit) \/ ~IsWordChar(unit[pos + Len(pattern)]))

\* C9: for a literal whole-word target, match_text_in_paragraph returns true if
\* and only if the pattern (case-folded unless case_sensitive) occurs in the unit
\* text with a non-word character or the unit's end on each side, for every
\* pattern, also one that starts or ends with a non-word character.
C9_WholeWordIffToken ==
    (path = "match" /\ m_out # <<>> /\ m_in.match_type = "exact" /\ m_in.whole_word)
        => (m_out[1] <=>
              IF m_in.case_sensitive
                  THEN OccursAsToken(m_in.target, m_in.text)
                  ELSE OccursAsToken(Lower(m_in.target), Lower(m_in.text)))

====
